---- MODULE Spec2Model ----
(***************************************************************************)
(* Model of the dataexplorer REST API over its relational store.           *)
(*                                                                         *)
(* The store holds four relations (sidebar_items, dynamic_tables,          *)
(* table_columns, table_data).  The repository carries three revisions of  *)
(* lib/database.ts (Neon/Postgres, MySQL with LAST_INSERT_ID, MySQL with   *)
(* positional parameters) and, for Postgres, a hand-run SQL script whose   *)
(* schema differs from the one initializeTables creates.  A deployment is  *)
(* one of these builds; the variable build fixes it for a behaviour.       *)
(* Columns that no handler reads back (icon, description, the timestamps)  *)
(* are left out of the rows.                                               *)
(***************************************************************************)
EXTENDS Integers, Sequences, FiniteSets, TLC

VARIABLES build,           \* which revision of lib/database.ts and which schema is deployed
          sidebar_items,   \* the rows of sidebar_items
          dynamic_tables,  \* the rows of dynamic_tables
          table_columns,   \* the rows of table_columns
          table_data,      \* the rows of table_data
          seq,             \* the next value of each id sequence
          work,            \* how many seedings and updates the behaviour has used
          resp,            \* the request handled last and its response
          call,            \* a string function, its argument and the value it has so far
          proc             \* the requests in flight, one per connection

vars == <<build, sidebar_items, dynamic_tables, table_columns, table_data,
          seq, work, resp, call, proc>>

(***************************************************************************)
(* Bounds of the model.                                                    *)
(***************************************************************************)
MaxItems == 2
MaxTreeItems == 3
MaxTables == 2
MaxColumns == 2
MaxRows == 1
MaxSeeds == 1
MaxPuts == 1
MaxRowPuts == 1
MaxColPuts == 1
MaxLen == 3
MaxApplied == 2
MaxFlat == 3
MaxViewColumns == 2

(***************************************************************************)
(* Program constants.                                                      *)
(***************************************************************************)
TableNameLimit == 64
VarcharLimit == 255
DefaultWidth == 150
\* the limit of getTableData when the caller gives none
DefaultLimit == 100

\* null, for parent_id and for an id that was never assigned
Null == 0
\* null in a text column: no string, since a string is made of single characters
NullText == <<"null">>
\* the parent_id of a request body that has no parent_id: undefined
UndefinedId == -1

Builds == {"rev1", "rev1_script", "rev2", "rev3"}

Rev(b) == CASE b \in {"rev1", "rev1_script"} -> 1
            [] b = "rev2" -> 2
            [] OTHER -> 3

ItemTypes == {"folder", "table"}
DataTypes == {"text", "number", "date", "boolean", "decimal", "double", "checkbox"}

(***************************************************************************)
(* Strings are sequences of one-character strings.                         *)
(***************************************************************************)
UpperCase == <<"A","B","C","D","E","F","G","H","I","J","K","L","M",
               "N","O","P","Q","R","S","T","U","V","W","X","Y","Z">>
LowerCase == <<"a","b","c","d","e","f","g","h","i","j","k","l","m",
               "n","o","p","q","r","s","t","u","v","w","x","y","z">>
Digits == {"0","1","2","3","4","5","6","7","8","9"}
WhiteSpace == {" ", "\t", "\n"}

Range(s) == {s[i] : i \in DOMAIN s}

toLowerCaseChar(c) ==
  IF \E i \in DOMAIN UpperCase : UpperCase[i] = c
  THEN LowerCase[CHOOSE i \in DOMAIN UpperCase : UpperCase[i] = c]
  ELSE c

toLowerCase(s) == [i \in DOMAIN s |-> toLowerCaseChar(s[i])]

RECURSIVE skipWhiteSpace(_)
skipWhiteSpace(s) ==
  IF s # <<>> /\ Head(s) \in WhiteSpace THEN skipWhiteSpace(Tail(s)) ELSE s

\* s.replace(/\s+/g, "_")
RECURSIVE replaceWhiteSpaceRuns(_)
replaceWhiteSpaceRuns(s) ==
  IF s = <<>> THEN <<>>
  ELSE IF Head(s) \in WhiteSpace
       THEN <<"_">> \o replaceWhiteSpaceRuns(skipWhiteSpace(Tail(s)))
       ELSE <<Head(s)>> \o replaceWhiteSpaceRuns(Tail(s))

IdentChars == Range(LowerCase) \cup Digits \cup {"_"}

\* a replace without the g flag: only the first character found is stripped
RECURSIVE stripFirstNonIdent(_)
stripFirstNonIdent(s) ==
  IF s = <<>> THEN <<>>
  ELSE IF Head(s) \notin IdentChars THEN Tail(s)
       ELSE <<Head(s)>> \o stripFirstNonIdent(Tail(s))

\* no strip at all
stripNothing(s) == s

\* s.replace(/[^a-z0-9_]/g, "")
stripNonIdent(s) == SelectSeq(s, LAMBDA c : c \in IdentChars)

normalize(s) == stripNonIdent(replaceWhiteSpaceRuns(toLowerCase(s)))

\* a substring that does not cut
wholeString(s, n) == s

substring(s, n) == SubSeq(s, 1, IF Len(s) < n THEN Len(s) ELSE n)

RECURSIVE trimStart(_)
trimStart(s) == IF s # <<>> /\ Head(s) \in WhiteSpace THEN trimStart(Tail(s)) ELSE s

RECURSIVE trimEnd(_)
trimEnd(s) ==
  IF s # <<>> /\ s[Len(s)] \in WhiteSpace THEN trimEnd(SubSeq(s, 1, Len(s) - 1)) ELSE s

\* s.trim()
trim(s) == trimEnd(trimStart(s))

\* the table name of the route that cuts it
tableName64(s) == substring(normalize(s), TableNameLimit)

\* the column name the table view sends: lower-cased, trimmed, then as normalize
columnName(s) == stripNonIdent(replaceWhiteSpaceRuns(trim(toLowerCase(s))))

\* the database name the sidebar sends: trimmed, then as normalize
dbName(s) == normalize(trim(s))

StringFunctions == {"normalize", "tableName64", "columnName", "dbName"}

applyStringFunction(fn, s) ==
  CASE fn = "normalize" -> normalize(s)
    [] fn = "tableName64" -> tableName64(s)
    [] fn = "columnName" -> columnName(s)
    [] OTHER -> dbName(s)

(***************************************************************************)
(* The relational store: the constraints of the schema and the effect of   *)
(* each statement.  A snapshot db is [si, dt, tc, td, seq].                *)
(***************************************************************************)
Ids(rows) == {r.id : r \in rows}

NoRow == [id |-> Null]

\* UNIQUE(table_name) and UNIQUE(table_id, column_name) exist only in the SQL script
uniqueTableName(b) == b = "rev1_script"
uniqueColumnName(b) == b = "rev1_script"
\* sidebar_item_id INT NOT NULL UNIQUE is in the second revision's schema only
uniqueSidebarItemId(b) == b = "rev2"

\* parent_id REFERENCES sidebar_items(id), item_type IN ('folder','table'), name VARCHAR(255)
sidebarItemAccepted(db, row) ==
  /\ Len(row.name) <= VarcharLimit
  /\ row.item_type \in ItemTypes
  /\ row.parent_id = Null \/ row.parent_id \in Ids(db.si)

sqlInsertSidebarItem(db, name, parent_id, item_type, sort_order) ==
  LET row == [id |-> db.seq.item, name |-> name, parent_id |-> parent_id,
              item_type |-> item_type, sort_order |-> sort_order]
  IN IF sidebarItemAccepted(db, row)
     THEN [ok |-> TRUE, row |-> row,
           db |-> [db EXCEPT !.si = @ \cup {row}, !.seq.item = @ + 1]]
     ELSE [ok |-> FALSE, row |-> NoRow, db |-> db]

\* an UPDATE of one sidebar_items row to newrow, under the same constraints
sqlUpdateSidebarItem(db, id, newrow) ==
  IF id \notin Ids(db.si) THEN [ok |-> TRUE, row |-> NoRow, db |-> db]
  ELSE IF sidebarItemAccepted(db, newrow)
       THEN [ok |-> TRUE, row |-> newrow,
             db |-> [db EXCEPT !.si = {r \in @ : r.id # id} \cup {newrow}]]
       ELSE [ok |-> FALSE, row |-> NoRow, db |-> db]

sqlInsertDynamicTable(b, db, sidebar_item_id, table_name, display_name) ==
  LET row == [id |-> db.seq.table, sidebar_item_id |-> sidebar_item_id,
              table_name |-> table_name, display_name |-> display_name]
  IN IF /\ sidebar_item_id \in Ids(db.si)
        /\ Len(table_name) <= VarcharLimit
        /\ Len(display_name) <= VarcharLimit
        /\ uniqueTableName(b) => \A t \in db.dt : t.table_name # table_name
        /\ uniqueSidebarItemId(b) => \A t \in db.dt : t.sidebar_item_id # sidebar_item_id
     THEN [ok |-> TRUE, row |-> row,
           db |-> [db EXCEPT !.dt = @ \cup {row}, !.seq.table = @ + 1]]
     ELSE [ok |-> FALSE, row |-> NoRow, db |-> db]

sqlInsertTableColumn(b, db, col) ==
  LET row == [id |-> db.seq.column, table_id |-> col.table_id,
              column_name |-> col.column_name, display_name |-> col.display_name,
              data_type |-> col.data_type, is_required |-> col.is_required,
              default_value |-> col.default_value, sort_order |-> col.sort_order,
              width |-> col.width]
  IN IF /\ col.table_id \in Ids(db.dt)
        /\ col.data_type \in DataTypes
        /\ Len(col.column_name) <= VarcharLimit
        /\ uniqueColumnName(b) =>
             \A c \in db.tc : ~(c.table_id = col.table_id /\ c.column_name = col.column_name)
     THEN [ok |-> TRUE, row |-> row,
           db |-> [db EXCEPT !.tc = @ \cup {row}, !.seq.column = @ + 1]]
     ELSE [ok |-> FALSE, row |-> NoRow, db |-> db]

\* the fields of a column that updateTableColumn can write
ColumnFields == {"column_name", "display_name", "data_type", "is_required",
                 "default_value", "sort_order", "width"}

\* an UPDATE that also resets the width of the column when the request has none
sqlUpdateTableColumnAndWidth(b, db, id, updates) ==
  LET new(old) == [f \in DOMAIN old |->
                    IF f \in DOMAIN updates THEN updates[f]
                    ELSE IF f = "width" THEN Null ELSE old[f]]
  IN [ok |-> TRUE, row |-> NoRow,
      db |-> [db EXCEPT !.tc = {IF c.id = id THEN new(c) ELSE c : c \in @}]]

\* UPDATE table_columns SET f = updates[f], for the fields f of updates, WHERE id = id
sqlUpdateTableColumn(b, db, id, updates) ==
  LET new(old) == [f \in DOMAIN old |-> IF f \in DOMAIN updates THEN updates[f] ELSE old[f]]
      accepted(old) ==
        /\ new(old).data_type \in DataTypes
        /\ Len(new(old).column_name) <= VarcharLimit
        /\ Len(new(old).display_name) <= VarcharLimit
        /\ uniqueColumnName(b) =>
             \A c \in db.tc : ~(/\ c.id # id
                                /\ c.table_id = old.table_id
                                /\ c.column_name = new(old).column_name)
  IN IF \A c \in db.tc : c.id = id => accepted(c)
     THEN [ok |-> TRUE, row |-> NoRow,
           db |-> [db EXCEPT !.tc = {IF c.id = id THEN new(c) ELSE c : c \in @}]]
     ELSE [ok |-> FALSE, row |-> NoRow, db |-> db]

sqlInsertTableData(db, table_id, row_data) ==
  LET row == [id |-> db.seq.row, table_id |-> table_id, row_data |-> row_data]
  IN IF table_id \in Ids(db.dt)
     THEN [ok |-> TRUE, row |-> row,
           db |-> [db EXCEPT !.td = @ \cup {row}, !.seq.row = @ + 1]]
     ELSE [ok |-> FALSE, row |-> NoRow, db |-> db]

\* DELETE FROM dynamic_tables WHERE id IN ids; table_columns and table_data cascade
sqlDeleteDynamicTables(db, ids) ==
  [db EXCEPT !.dt = {t \in @ : t.id \notin ids},
             !.tc = {c \in @ : c.table_id \notin ids},
             !.td = {d \in @ : d.table_id \notin ids}]

\* a cascade that stops at the children
childrenOnly(si, ids) == ids \cup {r.id : r \in {x \in si : x.parent_id \in ids}}

\* the rows that ON DELETE CASCADE on parent_id removes along with ids
RECURSIVE cascadeItems(_, _)
cascadeItems(si, ids) ==
  LET more == {r.id : r \in {x \in si : x.parent_id \in ids}} \ ids
  IN IF more = {} THEN ids ELSE cascadeItems(si, ids \cup more)

\* DELETE FROM sidebar_items WHERE id IN ids; children and dynamic_tables cascade
sqlDeleteSidebarItems(db, ids) ==
  LET gone == cascadeItems(db.si, ids \cap Ids(db.si))
      tables == {t.id : t \in {x \in db.dt : x.sidebar_item_id \in gone}}
  IN sqlDeleteDynamicTables([db EXCEPT !.si = {r \in @ : r.id \notin gone}], tables)

\* a DELETE of columns that takes the rows of their tables with them
sqlDeleteTableColumnsAndData(db, ids) ==
  LET tables == {c.table_id : c \in {c \in db.tc : c.id \in ids}}
  IN [db EXCEPT !.tc = {c \in @ : c.id \notin ids},
                !.td = {d \in @ : d.table_id \notin tables}]

sqlDeleteTableColumns(db, ids) == [db EXCEPT !.tc = {c \in @ : c.id \notin ids}]

sqlDeleteTableData(db, ids) == [db EXCEPT !.td = {d \in @ : d.id \notin ids}]

\* an UPDATE that merges the new members into the stored mapping
sqlMergeTableData(db, id, row_data) ==
  [db EXCEPT !.td = {IF d.id = id
                     THEN [d EXCEPT !.row_data =
                             [k \in DOMAIN d.row_data \cup DOMAIN row_data |->
                                IF k \in DOMAIN row_data THEN row_data[k] ELSE d.row_data[k]]]
                     ELSE d : d \in @}]

\* UPDATE table_data SET row_data = ... WHERE id = id
sqlUpdateTableData(db, id, row_data) ==
  [db EXCEPT !.td = {IF d.id = id THEN [d EXCEPT !.row_data = row_data] ELSE d : d \in @}]

(***************************************************************************)
(* JSON.stringify of a row mapping and the store's parse of it.  The text  *)
(* is the list of the members, one <<key, value>> pair each.               *)
(***************************************************************************)
JsonKeys == <<"a", "active", "b", "created_date", "email", "name", "phone">>

JSONstringify(m) ==
  LET present == SelectSeq(JsonKeys, LAMBDA k : k \in DOMAIN m)
  IN [i \in DOMAIN present |-> <<present[i], m[present[i]]>>]

JSONparse(text) ==
  [k \in {text[i][1] : i \in DOMAIN text} |->
     text[CHOOSE i \in DOMAIN text : text[i][1] = k][2]]

(***************************************************************************)
(* DatabaseService, one definition per revision of lib/database.ts where   *)
(* the revisions differ.  Each returns [ok, row, db]: whether it returned  *)
(* or threw, the row it returned, and the store it left.                   *)
(***************************************************************************)
Threw(db) == [ok |-> FALSE, row |-> NoRow, db |-> db]
Returned(row, db) == [ok |-> TRUE, row |-> row, db |-> db]

\* SELECT ... WHERE id = LAST_INSERT_ID(), on the connection that ran the INSERT
lastInserted(rows, ins) == IF ins.ok /\ ins.row.id \in Ids(rows) THEN ins.row ELSE NoRow

SeedColumns ==
  << [column_name |-> <<"n","a","m","e">>, display_name |-> <<"C","u","s","t","o","m","e","r"," ","N","a","m","e">>,
      data_type |-> "text", is_required |-> TRUE, sort_order |-> 0, width |-> 200],
     [column_name |-> <<"e","m","a","i","l">>, display_name |-> <<"E","m","a","i","l"," ","A","d","d","r","e","s","s">>,
      data_type |-> "text", is_required |-> TRUE, sort_order |-> 1, width |-> 250],
     [column_name |-> <<"p","h","o","n","e">>, display_name |-> <<"P","h","o","n","e"," ","N","u","m","b","e","r">>,
      data_type |-> "text", is_required |-> FALSE, sort_order |-> 2, width |-> 150],
     [column_name |-> <<"a","c","t","i","v","e">>, display_name |-> <<"A","c","t","i","v","e">>,
      data_type |-> "checkbox", is_required |-> FALSE, sort_order |-> 3, width |-> 100],
     [column_name |-> <<"c","r","e","a","t","e","d","_","d","a","t","e">>, display_name |-> <<"C","r","e","a","t","e","d"," ","D","a","t","e">>,
      data_type |-> "date", is_required |-> FALSE, sort_order |-> 4, width |-> 150] >>

SeedRows ==
  << [name |-> "John Doe", email |-> "john@example.com", phone |-> "+1-555-0123",
      active |-> TRUE, created_date |-> "2024-01-15"],
     [name |-> "Jane Smith", email |-> "jane@example.com", phone |-> "+1-555-0124",
      active |-> TRUE, created_date |-> "2024-01-16"],
     [name |-> "Bob Johnson", email |-> "bob@example.com", phone |-> "+1-555-0125",
      active |-> FALSE, created_date |-> "2024-01-17"] >>

TablesFolderName == <<"T","a","b","l","e","s">>
SampleItemName == <<"S","a","m","p","l","e"," ","C","u","s","t","o","m","e","r","s">>
SampleTableName == <<"s","a","m","p","l","e","_","c","u","s","t","o","m","e","r","s">>

RECURSIVE insertSeedColumns(_, _, _, _)
insertSeedColumns(b, db, table_id, i) ==
  IF i > Len(SeedColumns) THEN db
  ELSE insertSeedColumns(b,
         sqlInsertTableColumn(b, db,
           [table_id |-> table_id, column_name |-> SeedColumns[i].column_name,
            display_name |-> SeedColumns[i].display_name,
            data_type |-> SeedColumns[i].data_type,
            is_required |-> SeedColumns[i].is_required, default_value |-> NullText,
            sort_order |-> SeedColumns[i].sort_order, width |-> SeedColumns[i].width]).db,
         table_id, i + 1)

RECURSIVE insertSeedRows(_, _, _)
insertSeedRows(db, table_id, i) ==
  IF i > Len(SeedRows) THEN db
  ELSE insertSeedRows(
         sqlInsertTableData(db, table_id, JSONparse(JSONstringify(SeedRows[i]))).db,
         table_id, i + 1)

\* second revision: every INSERT is followed by a read back through LAST_INSERT_ID()
seedInitialData_rev2(b, db) ==
  LET folder == sqlInsertSidebarItem(db, TablesFolderName, Null, "folder", 0)
      item == sqlInsertSidebarItem(folder.db, SampleItemName, folder.row.id, "table", 0)
      table == sqlInsertDynamicTable(b, item.db, item.row.id, SampleTableName, SampleItemName)
  IN IF lastInserted(folder.db.si, folder) = NoRow THEN Threw(folder.db)
     ELSE IF lastInserted(item.db.si, item) = NoRow THEN Threw(item.db)
     ELSE IF lastInserted(table.db.dt, table) = NoRow THEN Threw(table.db)
     ELSE Returned(NoRow,
            insertSeedRows(insertSeedColumns(b, table.db, table.row.id, 1), table.row.id, 1))

\* third revision: the first INSERT has no placeholder and runs; the second has a
\* "?" and no value bound to it, so the statement is rejected and the seeding throws
seedInitialData_rev3(b, db) ==
  Threw(sqlInsertSidebarItem(db, TablesFolderName, Null, "folder", 0).db)

\* first revision: COUNT(*) is a bigint, which the driver hands back as the string
\* "0"; count === 0 is then false and the store is never seeded
initializeTables_rev1(b, db) == Returned(NoRow, db)

initializeTables_rev2(b, db) ==
  IF Cardinality(db.si) = 0 THEN seedInitialData_rev2(b, db) ELSE Returned(NoRow, db)

initializeTables_rev3(b, db) ==
  IF Cardinality(db.si) = 0 THEN seedInitialData_rev3(b, db) ELSE Returned(NoRow, db)

initializeTables(b, db) ==
  CASE Rev(b) = 1 -> initializeTables_rev1(b, db)
    [] Rev(b) = 2 -> initializeTables_rev2(b, db)
    [] OTHER -> initializeTables_rev3(b, db)

\* does initializeTables start seeding in this store
Seeds(b, db) == Rev(b) # 1 /\ db.si = {}

\* SELECT * FROM sidebar_items
getSidebarItems(db) == db.si

\* first revision: the driver sends an undefined parameter as NULL
createSidebarItem_rev1(db, item) ==
  LET ins == sqlInsertSidebarItem(db, item.name,
                                  IF item.parent_id = UndefinedId THEN Null
                                  ELSE item.parent_id,
                                  item.item_type, item.sort_order)
  IN IF ins.ok THEN Returned(ins.row, ins.db) ELSE Threw(db)

\* second revision: sql leaves an undefined value out of the parameters, and the
\* statement is rejected for the missing one
createSidebarItem_rev2(db, item) ==
  LET ins == sqlInsertSidebarItem(db, item.name, item.parent_id, item.item_type, item.sort_order)
      result == lastInserted(ins.db.si, ins)
  IN IF item.parent_id = UndefinedId THEN Threw(db)
     ELSE IF ~ins.ok \/ result = NoRow THEN Threw(ins.db) ELSE Returned(result, ins.db)

\* third revision: the driver rejects an undefined parameter
createSidebarItem_rev3(db, item) ==
  IF item.name = <<>> \/ item.item_type = "" THEN Threw(db)
  ELSE IF item.parent_id = UndefinedId THEN Threw(db)
  ELSE LET ins == sqlInsertSidebarItem(db, item.name, item.parent_id, item.item_type,
                                       item.sort_order)
           createdItem == lastInserted(ins.db.si, ins)
       IN IF ~ins.ok \/ createdItem = NoRow THEN Threw(ins.db)
          ELSE Returned(createdItem, ins.db)

createSidebarItem(b, db, item) ==
  CASE Rev(b) = 1 -> createSidebarItem_rev1(db, item)
    [] Rev(b) = 2 -> createSidebarItem_rev2(db, item)
    [] OTHER -> createSidebarItem_rev3(db, item)

deleteSidebarItem_rev1(db, id) == Returned(NoRow, sqlDeleteSidebarItems(db, {id}))

deleteSidebarItem_rev2(db, id) ==
  IF id \notin Ids(db.si) THEN Threw(db)
  ELSE LET item == CHOOSE r \in db.si : r.id = id
           tablesToDelete == {r.id : r \in {x \in db.si : x.parent_id = id /\ x.item_type = "table"}}
           noTables == sqlDeleteDynamicTables(db,
                         {t.id : t \in {x \in db.dt : x.sidebar_item_id \in tablesToDelete}})
           noChildren == sqlDeleteSidebarItems(noTables,
                           {r.id : r \in {x \in noTables.si : x.parent_id = id}})
           noTable == sqlDeleteDynamicTables(db,
                        {t.id : t \in {x \in db.dt : x.sidebar_item_id = id}})
           cleared == IF item.item_type = "folder" THEN noChildren
                      ELSE IF item.item_type = "table" THEN noTable
                      ELSE db
       IN Returned(NoRow, sqlDeleteSidebarItems(cleared, {id}))

deleteSidebarItem_rev3(db, id) == Returned(NoRow, sqlDeleteSidebarItems(db, {id}))

deleteSidebarItem(b, db, id) ==
  CASE Rev(b) = 1 -> deleteSidebarItem_rev1(db, id)
    [] Rev(b) = 2 -> deleteSidebarItem_rev2(db, id)
    [] OTHER -> deleteSidebarItem_rev3(db, id)

\* the rows SELECT * FROM dynamic_tables WHERE sidebar_item_id = ? returns; the
\* handlers take result[0], and the statement gives the rows no order
getDynamicTableBySidebarId(db, sidebarId) == {t \in db.dt : t.sidebar_item_id = sidebarId}

createDynamicTable_rev1(b, db, table) ==
  LET ins == sqlInsertDynamicTable(b, db, table.sidebar_item_id, table.table_name,
                                   table.display_name)
  IN IF ins.ok THEN Returned(ins.row, ins.db) ELSE Threw(db)

createDynamicTable_rev2(b, db, table) ==
  LET ins == sqlInsertDynamicTable(b, db, table.sidebar_item_id, table.table_name,
                                   table.display_name)
      result == lastInserted(ins.db.dt, ins)
  IN IF ~ins.ok \/ result = NoRow THEN Threw(ins.db) ELSE Returned(result, ins.db)

createDynamicTable_rev3(b, db, table) ==
  IF table.sidebar_item_id = Null \/ table.table_name = <<>> \/ table.display_name = <<>>
  THEN Threw(db)
  ELSE LET ins == sqlInsertDynamicTable(b, db, table.sidebar_item_id, table.table_name,
                                        table.display_name)
           createdTable == lastInserted(ins.db.dt, ins)
       IN IF ~ins.ok \/ createdTable = NoRow THEN Threw(ins.db)
          ELSE Returned(createdTable, ins.db)

createDynamicTable(b, db, table) ==
  CASE Rev(b) = 1 -> createDynamicTable_rev1(b, db, table)
    [] Rev(b) = 2 -> createDynamicTable_rev2(b, db, table)
    [] OTHER -> createDynamicTable_rev3(b, db, table)

createTableColumn_rev1(b, db, column) ==
  LET ins == sqlInsertTableColumn(b, db, column)
  IN IF ins.ok THEN Returned(ins.row, ins.db) ELSE Threw(db)

createTableColumn_rev2(b, db, column) ==
  LET ins == sqlInsertTableColumn(b, db, column)
      result == lastInserted(ins.db.tc, ins)
  IN IF ~ins.ok \/ result = NoRow THEN Threw(ins.db) ELSE Returned(result, ins.db)

createTableColumn_rev3(b, db, column) ==
  IF \/ column.table_id = Null \/ column.column_name = <<>>
     \/ column.display_name = <<>> \/ column.data_type = ""
  THEN Threw(db)
  ELSE LET ins == sqlInsertTableColumn(b, db,
                    [column EXCEPT !.default_value = IF @ = <<>> THEN NullText ELSE @,
                                   !.width = IF @ = 0 THEN DefaultWidth ELSE @])
           createdColumn == lastInserted(ins.db.tc, ins)
       IN IF ~ins.ok \/ createdColumn = NoRow THEN Threw(ins.db)
          ELSE Returned(createdColumn, ins.db)

createTableColumn(b, db, column) ==
  CASE Rev(b) = 1 -> createTableColumn_rev1(b, db, column)
    [] Rev(b) = 2 -> createTableColumn_rev2(b, db, column)
    [] OTHER -> createTableColumn_rev3(b, db, column)

\* SELECT * FROM table_columns WHERE id = id, and the first row of the result
columnById(db, id) ==
  IF \E c \in db.tc : c.id = id THEN CHOOSE c \in db.tc : c.id = id ELSE NoRow

\* the fields of updates that the statement names
namedFields(updates) == [f \in ColumnFields \cap DOMAIN updates |-> updates[f]]

\* first revision: one UPDATE with COALESCE(updates.f, f) for each field, RETURNING *
updateTableColumn_rev1(b, db, id, updates) ==
  LET upd == sqlUpdateTableColumn(b, db, id, namedFields(updates))
  IN IF ~upd.ok THEN Threw(db) ELSE Returned(columnById(upd.db, id), upd.db)

\* second revision: SET only the fields that are not undefined, then SELECT
updateTableColumn_rev2(b, db, id, updates) ==
  LET upd == sqlUpdateTableColumn(b, db, id, namedFields(updates))
      result == columnById(upd.db, id)
  IN IF DOMAIN namedFields(updates) = {} THEN Threw(db)
     ELSE IF ~upd.ok \/ result = NoRow THEN Threw(upd.db)
     ELSE Returned(result, upd.db)

\* third revision: "?" placeholders in a template with no value: the statement is rejected
updateTableColumn_rev3(b, db, id, updates) == Threw(db)

updateTableColumn(b, db, id, updates) ==
  CASE Rev(b) = 1 -> updateTableColumn_rev1(b, db, id, updates)
    [] Rev(b) = 2 -> updateTableColumn_rev2(b, db, id, updates)
    [] OTHER -> updateTableColumn_rev3(b, db, id, updates)

deleteTableColumn_rev1(db, id) == Returned(NoRow, sqlDeleteTableColumns(db, {id}))

deleteTableColumn_rev2(db, id) == Returned(NoRow, sqlDeleteTableColumns(db, {id}))

\* third revision: "WHERE id = ?" in a template with no value: the statement is rejected
deleteTableColumn_rev3(db, id) == Threw(db)

deleteTableColumn(b, db, id) ==
  CASE Rev(b) = 1 -> deleteTableColumn_rev1(db, id)
    [] Rev(b) = 2 -> deleteTableColumn_rev2(db, id)
    [] OTHER -> deleteTableColumn_rev3(db, id)

\* ORDER BY id
RECURSIVE orderById(_)
orderById(rows) ==
  IF rows = {} THEN <<>>
  ELSE LET first == CHOOSE r \in rows : \A q \in rows : r.id <= q.id
       IN <<first>> \o orderById(rows \ {first})

\* SELECT * FROM table_data WHERE table_id = tableId ORDER BY id LIMIT limit OFFSET 0
sqlSelectTableData(db, tableId, limit) ==
  LET result == orderById({d \in db.td : d.table_id = tableId})
  IN SubSeq(result, 1, IF Len(result) < limit THEN Len(result) ELSE limit)

getTableData_rev1(db, tableId) == sqlSelectTableData(db, tableId, DefaultLimit)

getTableData_rev2(db, tableId) == sqlSelectTableData(db, tableId, DefaultLimit)

\* third revision: each row of the result also has its row_data as "data"
getTableData_rev3(db, tableId) ==
  LET result == sqlSelectTableData(db, tableId, DefaultLimit)
  IN [i \in DOMAIN result |->
       [id |-> result[i].id, table_id |-> result[i].table_id,
        row_data |-> result[i].row_data, data |-> result[i].row_data]]

getTableData(b, db, tableId) ==
  CASE Rev(b) = 1 -> getTableData_rev1(db, tableId)
    [] Rev(b) = 2 -> getTableData_rev2(db, tableId)
    [] OTHER -> getTableData_rev3(db, tableId)

createTableRow_rev1(db, tableId, rowData) ==
  LET ins == sqlInsertTableData(db, tableId, JSONparse(JSONstringify(rowData)))
  IN IF ins.ok THEN Returned(ins.row, ins.db) ELSE Threw(db)

createTableRow_rev2(db, tableId, rowData) ==
  IF Cardinality({t \in db.dt : t.id = tableId}) = 0 THEN Threw(db)
  ELSE LET ins == sqlInsertTableData(db, tableId, JSONparse(JSONstringify(rowData)))
           result == lastInserted(ins.db.td, ins)
       IN IF ~ins.ok \/ result = NoRow THEN Threw(ins.db) ELSE Returned(result, ins.db)

createTableRow_rev3(db, tableId, rowData) ==
  LET jsonData == JSONstringify(rowData)
      ins == sqlInsertTableData(db, tableId, JSONparse(jsonData))
      newRow == lastInserted(ins.db.td, ins)
  IN IF ~ins.ok \/ newRow = NoRow THEN Threw(ins.db) ELSE Returned(newRow, ins.db)

createTableRow(b, db, tableId, rowData) ==
  CASE Rev(b) = 1 -> createTableRow_rev1(db, tableId, rowData)
    [] Rev(b) = 2 -> createTableRow_rev2(db, tableId, rowData)
    [] OTHER -> createTableRow_rev3(db, tableId, rowData)

rowById(db, id) == IF id \in Ids(db.td) THEN CHOOSE d \in db.td : d.id = id ELSE NoRow

\* first revision: UPDATE ... RETURNING *; result[0] is undefined when no row has the id
updateTableRow_rev1(db, id, rowData) ==
  LET after == sqlUpdateTableData(db, id, JSONparse(JSONstringify(rowData)))
  IN Returned(rowById(after, id), after)

updateTableRow_rev2(db, id, rowData) ==
  LET after == sqlUpdateTableData(db, id, JSONparse(JSONstringify(rowData)))
      result == rowById(after, id)
  IN IF result = NoRow THEN Threw(after) ELSE Returned(result, after)

updateTableRow_rev3(db, id, rowData) ==
  LET jsonData == JSONstringify(rowData)
      after == sqlUpdateTableData(db, id, JSONparse(jsonData))
      updatedRow == rowById(after, id)
  IN IF updatedRow = NoRow THEN Threw(after) ELSE Returned(updatedRow, after)

updateTableRow(b, db, id, rowData) ==
  CASE Rev(b) = 1 -> updateTableRow_rev1(db, id, rowData)
    [] Rev(b) = 2 -> updateTableRow_rev2(db, id, rowData)
    [] OTHER -> updateTableRow_rev3(db, id, rowData)

deleteTableRow_rev1(db, id) == Returned(NoRow, sqlDeleteTableData(db, {id}))

deleteTableRow_rev2(db, id) == Returned(NoRow, sqlDeleteTableData(db, {id}))

\* third revision: "WHERE id = ?" in a template with no value: the statement is rejected
deleteTableRow_rev3(db, id) == Threw(db)

deleteTableRow(b, db, id) ==
  CASE Rev(b) = 1 -> deleteTableRow_rev1(db, id)
    [] Rev(b) = 2 -> deleteTableRow_rev2(db, id)
    [] OTHER -> deleteTableRow_rev3(db, id)

Has(body, field) == field \in DOMAIN body

itemById(db, id) == IF id \in Ids(db.si) THEN CHOOSE r \in db.si : r.id = id ELSE NoRow

\* first revision: SET x = COALESCE(update, x), so an absent or null field keeps its value
updateSidebarItem_rev1(db, id, updates) ==
  LET old == itemById(db, id)
      new == [old EXCEPT
                !.name = IF Has(updates, "name") THEN updates.name ELSE @,
                !.parent_id = IF Has(updates, "parent_id") /\ updates.parent_id # Null
                              THEN updates.parent_id ELSE @,
                !.item_type = IF Has(updates, "item_type") THEN updates.item_type ELSE @]
      upd == sqlUpdateSidebarItem(db, id, new)
  IN IF old = NoRow THEN Returned(NoRow, db)
     ELSE IF upd.ok THEN Returned(upd.row, upd.db) ELSE Threw(db)

\* second revision: SET built from the fields that are not undefined; none is a syntax error
updateSidebarItem_rev2(db, id, updates) ==
  LET old == itemById(db, id)
      new == [old EXCEPT
                !.name = IF Has(updates, "name") THEN updates.name ELSE @,
                !.parent_id = IF Has(updates, "parent_id") THEN updates.parent_id ELSE @,
                !.item_type = IF Has(updates, "item_type") THEN updates.item_type ELSE @]
      upd == sqlUpdateSidebarItem(db, id, new)
  IN IF DOMAIN updates \cap {"name", "parent_id", "item_type"} = {} THEN Threw(db)
     ELSE IF old = NoRow THEN Threw(db)
     ELSE IF upd.ok THEN Returned(upd.row, upd.db) ELSE Threw(db)

\* third revision: the item must exist, a name is required, and only the name is written
updateSidebarItem_rev3(db, id, updates) ==
  LET existingItem == itemById(db, id)
      upd == sqlUpdateSidebarItem(db, id, [existingItem EXCEPT !.name = updates.name])
  IN IF existingItem = NoRow THEN Threw(db)
     ELSE IF ~Has(updates, "name") \/ updates.name = <<>> THEN Threw(db)
     ELSE IF upd.ok THEN Returned(upd.row, upd.db) ELSE Threw(db)

updateSidebarItem(b, db, id, updates) ==
  CASE Rev(b) = 1 -> updateSidebarItem_rev1(db, id, updates)
    [] Rev(b) = 2 -> updateSidebarItem_rev2(db, id, updates)
    [] OTHER -> updateSidebarItem_rev3(db, id, updates)

(***************************************************************************)
(* The REST handlers.  Each takes the store and the request and returns    *)
(* [db, resp]: the store it leaves and the response, where resp records    *)
(* the request (op, id), the status, the step the handler ended at and the *)
(* id of the row the request created (made).                               *)
(***************************************************************************)
Response(db, op, id, status, step, made) ==
  [db |-> db,
   resp |-> [op |-> op, id |-> id, status |-> status, step |-> step, made |-> made]]

SetMax(S) == CHOOSE x \in S : \A y \in S : y <= x

\* Math.max(...parentSiblings.map(item => item.sort_order), 0) + 1
nextSortOrder(db, parent_id) ==
  SetMax({i.sort_order : i \in {x \in getSidebarItems(db) : x.parent_id = parent_id}} \cup {0}) + 1

\* const { name, parent_id, item_type, icon } = body
parentIdOf(body) == IF Has(body, "parent_id") THEN body.parent_id ELSE UndefinedId

\* POST /sidebar as app/api/sidebar/route.ts has it
sidebarPOST(b, db, body) ==
  LET op == "POST /sidebar"
      init == initializeTables(b, db)
      newItem == createSidebarItem(b, init.db,
                   [name |-> body.name, parent_id |-> parentIdOf(body),
                    item_type |-> body.item_type,
                    sort_order |-> nextSortOrder(init.db, parentIdOf(body))])
      tableName == normalize(body.name)
      table == createDynamicTable(b, newItem.db,
                 [sidebar_item_id |-> newItem.row.id, table_name |-> tableName,
                  display_name |-> body.name])
  IN IF ~init.ok THEN Response(init.db, op, Null, 500, "initializeTables", Null)
     ELSE IF body.name = <<>> \/ body.item_type = ""
          THEN Response(init.db, op, Null, 400, "validate", Null)
     ELSE IF ~newItem.ok
          THEN Response(newItem.db, op, Null, 500, "createSidebarItem", Null)
     ELSE IF body.item_type # "table"
          THEN Response(newItem.db, op, Null, 200, "done", newItem.row.id)
     ELSE IF ~table.ok
          THEN Response(table.db, op, Null, 500, "createDynamicTable", newItem.row.id)
     ELSE Response(table.db, op, Null, 200, "done", newItem.row.id)

\* POST /sidebar as the other revision of the route has it: the table name is cut to
\* 64 characters, and the item is deleted again when createDynamicTable throws
sidebarPOST_compensating(b, db, body) ==
  LET op == "POST /sidebar (compensating)"
      init == initializeTables(b, db)
      newItem == createSidebarItem(b, init.db,
                   [name |-> body.name, parent_id |-> parentIdOf(body),
                    item_type |-> body.item_type,
                    sort_order |-> nextSortOrder(init.db, parentIdOf(body))])
      tableName == substring(normalize(body.name), TableNameLimit)
      dynamicTable == createDynamicTable(b, newItem.db,
                        [sidebar_item_id |-> newItem.row.id, table_name |-> tableName,
                         display_name |-> body.name])
      undone == deleteSidebarItem(b, dynamicTable.db, newItem.row.id)
  IN IF ~init.ok THEN Response(init.db, op, Null, 500, "initializeTables", Null)
     ELSE IF body.name = <<>> \/ body.item_type = ""
          THEN Response(init.db, op, Null, 400, "validate", Null)
     ELSE IF ~newItem.ok
          THEN Response(newItem.db, op, Null, 500, "createSidebarItem", Null)
     ELSE IF body.item_type # "table"
          THEN Response(newItem.db, op, Null, 200, "done", newItem.row.id)
     ELSE IF ~dynamicTable.ok
          THEN Response(undone.db, op, Null, 500, "createDynamicTable", newItem.row.id)
     ELSE Response(dynamicTable.db, op, Null, 200, "done", newItem.row.id)

\* NextResponse.json(value): undefined is not serialisable, the handler's catch answers 500
jsonStatus(row) == IF row = NoRow THEN 500 ELSE 200

\* PUT /sidebar/{id}: the body goes to updateSidebarItem as it came
sidebarPUT(b, db, id, body) ==
  LET updatedItem == updateSidebarItem(b, db, id, body)
  IN IF ~updatedItem.ok
     THEN Response(updatedItem.db, "PUT /sidebar/{id}", id, 500, "updateSidebarItem", Null)
     ELSE Response(updatedItem.db, "PUT /sidebar/{id}", id, jsonStatus(updatedItem.row),
                   "done", Null)

\* DELETE /sidebar/{id}
sidebarDELETE(b, db, id) ==
  LET deleted == deleteSidebarItem(b, db, id)
  IN IF ~deleted.ok
     THEN Response(deleted.db, "DELETE /sidebar/{id}", id, 500, "deleteSidebarItem", Null)
     ELSE Response(deleted.db, "DELETE /sidebar/{id}", id, 200, "done", Null)

\* GET /tables/{id}: the status it answers with, table being result[0] (NoRow for none)
tablesGET(table) == IF table = NoRow THEN 404 ELSE 200

\* POST /tables/create
tablesCreatePOST(b, db, body) ==
  LET op == "POST /tables/create"
      table == createDynamicTable(b, db,
                 [sidebar_item_id |-> body.sidebar_item_id, table_name |-> body.table_name,
                  display_name |-> body.display_name])
  IN IF body.sidebar_item_id = Null \/ body.table_name = <<>> \/ body.display_name = <<>>
     THEN Response(db, op, Null, 400, "validate", Null)
     ELSE IF ~table.ok THEN Response(table.db, op, Null, 500, "createDynamicTable", Null)
     ELSE Response(table.db, op, Null, 200, "done", table.row.id)

\* POST /tables/{id}/columns; dynamicTable is result[0] of the lookup by sidebar item
columnsPOST(b, db, sidebarItemId, dynamicTable, body) ==
  LET op == "POST /tables/{id}/columns"
      columnData == [table_id |-> dynamicTable.id,
                     column_name |-> body.name,
                     display_name |-> body.name,
                     data_type |-> body.data_type,
                     is_required |-> body.is_required,
                     default_value |-> IF body.default_value = <<>> THEN NullText
                                       ELSE body.default_value,
                     sort_order |-> body.sort_order,
                     width |-> DefaultWidth]
      column == createTableColumn(b, db, columnData)
  IN IF dynamicTable = NoRow
     THEN Response(db, op, sidebarItemId, 404, "getDynamicTableBySidebarId", Null)
     ELSE IF ~column.ok
          THEN Response(column.db, op, sidebarItemId, 500, "createTableColumn", Null)
     ELSE Response(column.db, op, sidebarItemId, 200, "done", column.row.id)

\* PUT /tables/{id}/columns/{columnId}
columnPUT(b, db, columnId, body) ==
  LET op == "PUT /tables/{id}/columns/{columnId}"
      column == updateTableColumn(b, db, columnId, body)
  IN IF ~column.ok THEN Response(column.db, op, columnId, 500, "updateTableColumn", Null)
     ELSE Response(column.db, op, columnId, jsonStatus(column.row), "done", Null)

\* DELETE /tables/{id}/columns/{columnId}
columnDELETE(b, db, columnId) ==
  LET op == "DELETE /tables/{id}/columns/{columnId}"
      deleted == deleteTableColumn(b, db, columnId)
  IN IF ~deleted.ok THEN Response(deleted.db, op, columnId, 500, "deleteTableColumn", Null)
     ELSE Response(deleted.db, op, columnId, 200, "done", Null)

\* GET /tables/{id}/data: the list of the response; {id} is the dynamic table's id
dataGET(b, db, tableId) == getTableData(b, db, tableId)

\* POST /tables/{id}/data, the revision that takes {id} as the sidebar item's id
dataPOST(b, db, sidebarItemId, dynamicTable, body) ==
  LET op == "POST /tables/{id}/data"
      row == createTableRow(b, db, dynamicTable.id, body.data)
  IN IF dynamicTable = NoRow
     THEN Response(db, op, sidebarItemId, 404, "getDynamicTableBySidebarId", Null)
     ELSE IF ~row.ok THEN Response(row.db, op, sidebarItemId, 500, "createTableRow", Null)
     ELSE Response(row.db, op, sidebarItemId, 200, "done", row.row.id)

\* POST /tables/{id}/data, the revision that takes {id} as the dynamic table's id
dataPOST_byTableId(b, db, tableId, body) ==
  LET op == "POST /tables/{id}/data"
      row == createTableRow(b, db, tableId, body.data)
  IN IF ~row.ok THEN Response(row.db, op, tableId, 500, "createTableRow", Null)
     ELSE Response(row.db, op, tableId, 200, "done", row.row.id)

\* PUT /tables/{id}/data/{rowId}
dataPUT(b, db, rowId, body) ==
  LET op == "PUT /tables/{id}/data/{rowId}"
      row == updateTableRow(b, db, rowId, body.data)
  IN IF ~row.ok THEN Response(row.db, op, rowId, 500, "updateTableRow", Null)
     ELSE Response(row.db, op, rowId, jsonStatus(row.row), "done", Null)

\* DELETE /tables/{id}/data/{rowId}
dataDELETE(b, db, rowId) ==
  LET op == "DELETE /tables/{id}/data/{rowId}"
      deleted == deleteTableRow(b, db, rowId)
  IN IF ~deleted.ok THEN Response(deleted.db, op, rowId, 500, "deleteTableRow", Null)
     ELSE Response(deleted.db, op, rowId, 200, "done", Null)

(***************************************************************************)
(* The body of the responses of the revision of the /sidebar/{id} route    *)
(* that reports details, and of the database test route.  A body is the    *)
(* record of its fields; the value of a field is the text the handler      *)
(* writes or, for a value taken from the caught error, which value it is.  *)
(***************************************************************************)
ErrorMessage == "error.message"
ErrorStack == "error.stack"

\* a request body that request.json() cannot parse
NotJson == [malformed |-> TRUE]

\* PUT /sidebar/{id}, the revision that validates the name and reports details
sidebarPUT_detailed(b, db, id, body) ==
  LET newName == trim(body.name)
      updatedItem == updateSidebarItem(b, db, id, [name |-> newName])
  IN IF Has(body, "malformed")
     THEN [db |-> db, status |-> 500,
           body |-> [error |-> ErrorMessage, details |-> ErrorStack]]
     ELSE IF ~Has(body, "name")
          THEN [db |-> db, status |-> 400,
                body |-> [error |-> "Invalid request",
                          details |-> "Request must include a name field"]]
     ELSE IF newName = <<>>
          THEN [db |-> db, status |-> 400,
                body |-> [error |-> "Invalid name", details |-> "Name cannot be empty"]]
     ELSE IF ~updatedItem.ok \/ updatedItem.row = NoRow
          THEN [db |-> updatedItem.db, status |-> 500,
                body |-> [error |-> "Failed to update item", details |-> ErrorMessage]]
     ELSE [db |-> updatedItem.db, status |-> 200, body |-> [item |-> "updatedItem"]]

\* DELETE /sidebar/{id}, the revision that reports details
sidebarDELETE_detailed(b, db, id) ==
  LET deleted == deleteSidebarItem(b, db, id)
  IN IF ~deleted.ok
     THEN [db |-> deleted.db, status |-> 500,
           body |-> [error |-> ErrorMessage, details |-> ErrorStack]]
     ELSE [db |-> deleted.db, status |-> 200,
           body |-> [success |-> "true",
                     message |-> "Item and all its contents deleted successfully"]]

\* GET of the database test route: initializeTables, then getSidebarItems
testGET(b, db) ==
  LET init == initializeTables(b, db)
  IN IF ~init.ok
     THEN [db |-> init.db, status |-> 500,
           body |-> [success |-> "false", error |-> ErrorMessage, stack |-> ErrorStack]]
     ELSE [db |-> init.db, status |-> 200,
           body |-> [success |-> "true", message |-> "Database test successful",
                     connection |-> "testQuery[0]", sidebarItems |-> "items"]]

(***************************************************************************)
(* The requests the model sends.                                           *)
(***************************************************************************)
NameMyTable == <<"M","y"," ","T","a","b","l","e">>
NameMy_Table == <<"m","y","_","t","a","b","l","e">>
NameBangs == <<"!","!","!">>
NameLong == [i \in 1..(TableNameLimit + 1) |-> "a"]
NameFullName == <<"F","u","l","l"," ","N","a","m","e">>

\* an id no row has
MissingItem == seq.item + 1

ItemIdInputs == Ids(sidebar_items) \cup {MissingItem}
TableIdInputs == Ids(dynamic_tables) \cup {seq.table + 1}

\* bodies of PUT /tables/{id}/columns/{columnId}: no field, one field, two fields, a
\* data type the store rejects, and a field the statement does not name
ColumnUpdates ==
  {<<>>, [width |-> 200], [display_name |-> NameMyTable, data_type |-> "text"],
   [data_type |-> "blob"], [table_id |-> Null]}

SidebarBodies(names, types, parents) ==
  {[name |-> n, parent_id |-> p, item_type |-> t] : n \in names, p \in parents, t \in types}

(***************************************************************************)
(* The state machine.                                                      *)
(***************************************************************************)
DB == [si |-> sidebar_items, dt |-> dynamic_tables, tc |-> table_columns,
       td |-> table_data, seq |-> seq]

SeedItemCount(b) == CASE Rev(b) = 2 -> 2 [] Rev(b) = 3 -> 1 [] OTHER -> 0
SeedTableCount(b) == IF Rev(b) = 2 THEN 1 ELSE 0
SeedColumnCount(b) == IF Rev(b) = 2 THEN Len(SeedColumns) ELSE 0
SeedRowCount(b) == IF Rev(b) = 2 THEN Len(SeedRows) ELSE 0

\* rows that requests, not the seeding, have inserted
UserItems == seq.item - 1 - work.seeds * SeedItemCount(build)
UserTables == seq.table - 1 - work.seeds * SeedTableCount(build)
UserColumns == seq.column - 1 - work.seeds * SeedColumnCount(build)
UserRows == seq.row - 1 - work.seeds * SeedRowCount(build)

\* the columns and rows that requests have made, and an id no row has
ColumnIdInputs == {c \in Ids(table_columns) : c > seq.column - 1 - UserColumns}
                    \cup {seq.column + 1}
RowIdInputs == {d \in Ids(table_data) : d > seq.row - 1 - UserRows} \cup {seq.row + 1}

\* no string function under study
NoCall == [fn |-> "none", arg |-> <<>>, val |-> <<>>, applied |-> 0]

\* the connections that carry concurrent requests, and a connection with no request
Connections == {"c1", "c2"}
Idle == [pc |-> "idle", id |-> Null, data |-> <<>>, status |-> 0, written |-> 0,
         sort_order |-> 0, inserted |-> Null, newItem |-> Null, table |-> Null]
NoRequests == [c \in Connections |-> Idle]

\* LAST_INSERT_ID() of a pool connection that has inserted nothing yet is 0
NoInsert == [k \in Connections |-> 0]

Init ==
  /\ build \in Builds
  /\ sidebar_items = {}
  /\ dynamic_tables = {}
  /\ table_columns = {}
  /\ table_data = {}
  /\ seq = [item |-> 1, table |-> 1, column |-> 1, row |-> 1]
  /\ work = [seeds |-> 0, puts |-> 0, rowputs |-> 0, colputs |-> 0,
             lastInsertId |-> NoInsert]
  /\ resp = [op |-> "none", id |-> Null, status |-> 0, step |-> "none", made |-> Null]
  /\ call = NoCall
  /\ proc = NoRequests

Commit(r) ==
  /\ sidebar_items' = r.db.si
  /\ dynamic_tables' = r.db.dt
  /\ table_columns' = r.db.tc
  /\ table_data' = r.db.td
  /\ seq' = r.db.seq
  /\ resp' = r.resp
  /\ build' = build
  /\ UNCHANGED <<call, proc>>

SidebarPostEnabled(body, maxItems) ==
  /\ UserItems < maxItems
  /\ body.item_type = "table" => UserTables < MaxTables
  /\ Seeds(build, DB) => work.seeds < MaxSeeds

POST_sidebar(names, types, parents, maxItems) ==
  \E body \in SidebarBodies(names, types, parents) :
    /\ SidebarPostEnabled(body, maxItems)
    /\ Commit(sidebarPOST(build, DB, body))
    /\ work' = [work EXCEPT !.seeds = IF Seeds(build, DB) THEN @ + 1 ELSE @]

POST_sidebar_compensating(names, types, parents, maxItems) ==
  \E body \in SidebarBodies(names, types, parents) :
    /\ SidebarPostEnabled(body, maxItems)
    /\ Commit(sidebarPOST_compensating(build, DB, body))
    /\ work' = [work EXCEPT !.seeds = IF Seeds(build, DB) THEN @ + 1 ELSE @]

PUT_sidebar(bodies) ==
  \E id \in ItemIdInputs, body \in bodies :
    /\ work.puts < MaxPuts
    /\ Commit(sidebarPUT(build, DB, id, body))
    /\ work' = [work EXCEPT !.puts = IF sidebar_items' # sidebar_items THEN @ + 1 ELSE @]

DELETE_sidebar ==
  \E id \in ItemIdInputs :
    /\ Commit(sidebarDELETE(build, DB, id))
    /\ UNCHANGED work

POST_tables_create(names) ==
  \E sid \in ItemIdInputs \cup {Null}, name \in names :
    /\ UserTables < MaxTables
    /\ Commit(tablesCreatePOST(build, DB,
                [sidebar_item_id |-> sid, table_name |-> name, display_name |-> name]))
    /\ UNCHANGED work

\* result[0] of a query: one of the rows, or undefined when there is none
First(rows) == IF rows = {} THEN {NoRow} ELSE rows

POST_columns(names, types) ==
  \E sid \in ItemIdInputs, name \in names, type \in types :
    \E dynamicTable \in First(getDynamicTableBySidebarId(DB, sid)) :
      /\ UserColumns < MaxColumns
      /\ Commit(columnsPOST(build, DB, sid, dynamicTable,
                  [name |-> name, data_type |-> type, is_required |-> FALSE,
                   default_value |-> <<>>, sort_order |-> 0]))
      /\ UNCHANGED work

PUT_column(ids, bodies) ==
  \E columnId \in ids, body \in bodies :
    /\ work.colputs < MaxColPuts
    /\ Commit(columnPUT(build, DB, columnId, body))
    /\ work' = [work EXCEPT !.colputs = IF table_columns' # table_columns THEN @ + 1 ELSE @]

DELETE_column(ids) ==
  \E columnId \in ids :
    /\ Commit(columnDELETE(build, DB, columnId))
    /\ UNCHANGED work

POST_data(rows) ==
  \E sid \in ItemIdInputs, data \in rows :
    \E dynamicTable \in First(getDynamicTableBySidebarId(DB, sid)) :
      /\ UserRows < MaxRows
      /\ Commit(dataPOST(build, DB, sid, dynamicTable, [data |-> data]))
      /\ UNCHANGED work

POST_data_byTableId(rows) ==
  \E tableId \in TableIdInputs, data \in rows :
    /\ UserRows < MaxRows
    /\ Commit(dataPOST_byTableId(build, DB, tableId, [data |-> data]))
    /\ UNCHANGED work

PUT_data(ids, rows) ==
  \E rowId \in ids, data \in rows :
    /\ work.rowputs < MaxRowPuts
    /\ Commit(dataPUT(build, DB, rowId, [data |-> data]))
    /\ work' = [work EXCEPT !.rowputs = IF table_data' # table_data THEN @ + 1 ELSE @]

DELETE_data(ids) ==
  \E rowId \in ids :
    /\ Commit(dataDELETE(build, DB, rowId))
    /\ UNCHANGED work

\* the navigation tree and the tables bound to its items
Next ==
  \/ POST_sidebar({NameMyTable, NameBangs, NameLong}, ItemTypes,
                  Ids(sidebar_items) \cup {Null}, MaxItems)
  \/ POST_sidebar_compensating({NameMyTable, NameBangs, NameLong}, ItemTypes,
                               Ids(sidebar_items) \cup {Null}, MaxItems)
  \/ PUT_sidebar({[parent_id |-> p] : p \in Ids(sidebar_items)})
  \/ DELETE_sidebar
  \/ POST_tables_create({NameMy_Table})

Spec == Init /\ [][Next]_vars

\* the columns and rows of one table
NextData ==
  \/ POST_sidebar({NameMyTable}, {"table"}, {Null}, 1)
  \/ POST_columns({NameFullName}, {"number", "blob"})
  \/ PUT_column(ColumnIdInputs, ColumnUpdates)
  \/ DELETE_column(ColumnIdInputs)
  \/ POST_data({[a |-> 1, b |-> 2]})
  \/ POST_data_byTableId({[a |-> 1, b |-> 2]})
  \/ PUT_data(RowIdInputs, {[a |-> 9], [b |-> 2]})
  \/ DELETE_data(RowIdInputs)

SpecData == Init /\ [][NextData]_vars

\* subtrees of the navigation tree with tables, columns and rows in them
NextTree ==
  \/ POST_sidebar_compensating({NameMyTable}, ItemTypes, Ids(sidebar_items) \cup {Null},
                               MaxTreeItems)
  \/ DELETE_sidebar
  \/ POST_columns({NameFullName}, {"number"})
  \/ POST_data({[a |-> 1, b |-> 2]})

SpecTree == Init /\ [][NextTree]_vars

(***************************************************************************)
(* Two requests PUT /tables/{id}/data/{rowId} at the same time, one on     *)
(* each connection.  A request is the statements of updateTableRow, one    *)
(* step each: the UPDATE, which in the first revision also returns the     *)
(* row, and in the later revisions the SELECT that follows it.  "written"  *)
(* is the position of the request's UPDATE among the UPDATEs executed.     *)
(***************************************************************************)
PUT_data_request(ids, rows) ==
  \E c \in Connections, rowId \in ids, data \in rows :
    /\ proc[c].pc = "idle"
    /\ proc' = [proc EXCEPT ![c] = [Idle EXCEPT !.pc = "UPDATE", !.id = rowId,
                                                 !.data = data]]
    /\ UNCHANGED <<build, sidebar_items, dynamic_tables, table_columns, table_data,
                   seq, work, resp, call>>

PUT_data_UPDATE ==
  \E c \in Connections :
    LET after == sqlUpdateTableData(DB, proc[c].id, JSONparse(JSONstringify(proc[c].data)))
        executed == Cardinality({o \in Connections : proc[o].written > 0})
    IN /\ proc[c].pc = "UPDATE"
       /\ table_data' = after.td
       /\ proc' = [proc EXCEPT ![c] =
                     [@ EXCEPT !.written = executed + 1,
                               !.pc = IF Rev(build) = 1 THEN "done" ELSE "SELECT",
                               !.status = IF Rev(build) = 1
                                          THEN jsonStatus(rowById(after, proc[c].id))
                                          ELSE 0]]
       /\ UNCHANGED <<build, sidebar_items, dynamic_tables, table_columns, seq, work,
                      resp, call>>

PUT_data_SELECT ==
  \E c \in Connections :
    /\ proc[c].pc = "SELECT"
    /\ proc' = [proc EXCEPT ![c] =
                  [@ EXCEPT !.pc = "done",
                            !.status = IF rowById(DB, proc[c].id) = NoRow THEN 500 ELSE 200]]
    /\ UNCHANGED <<build, sidebar_items, dynamic_tables, table_columns, table_data,
                   seq, work, resp, call>>

NextRace ==
  \/ POST_sidebar({NameMyTable}, {"table"}, {Null}, 1)
  \/ POST_data({[a |-> 1, b |-> 2]})
  \/ PUT_data_request(Ids(table_data), {[a |-> 9], [b |-> 2]})
  \/ PUT_data_UPDATE
  \/ PUT_data_SELECT

SpecRace == Init /\ [][NextRace]_vars

(***************************************************************************)
(* POST /sidebar one statement at a time, with up to two requests in       *)
(* flight.  proc[c] is a request: its body (data), the sort_order it       *)
(* computed, the id its INSERT generated (inserted), the id of the row     *)
(* createSidebarItem handed back (newItem) and the id of the DynamicTable  *)
(* it made (table).  Every statement goes through sql, which takes a       *)
(* connection k from the pool and releases it afterwards, so two           *)
(* statements of one request may run on different connections;             *)
(* LAST_INSERT_ID() is the last id generated on the connection that        *)
(* evaluates it.  The first revision inserts with RETURNING *.             *)
(***************************************************************************)
InFlight(pcs) == {c \in Connections : proc[c].pc \in pcs}

Answered(request, status) == [request EXCEPT !.pc = "done", !.status = status]

POST_sidebar_request(names, types, parents) ==
  \E c \in Connections, body \in SidebarBodies(names, types, parents) :
    LET init == initializeTables(build, DB)
    IN /\ proc[c].pc \in {"idle", "done"}
       /\ UserItems + Cardinality(InFlight({"getSidebarItems", "INSERT"})) < MaxItems
       /\ body.item_type = "table" =>
            UserTables + Cardinality({o \in InFlight({"getSidebarItems", "INSERT", "SELECT",
                                                      "createDynamicTable"}) :
                                        proc[o].data.item_type = "table"}) < MaxTables
       /\ Seeds(build, DB) => work.seeds < MaxSeeds
       /\ sidebar_items' = init.db.si
       /\ dynamic_tables' = init.db.dt
       /\ table_columns' = init.db.tc
       /\ table_data' = init.db.td
       /\ seq' = init.db.seq
       /\ work' = [work EXCEPT !.seeds = IF Seeds(build, DB) THEN @ + 1 ELSE @]
       /\ proc' = [proc EXCEPT ![c] =
                     IF ~init.ok THEN Answered(Idle, 500)
                     ELSE IF body.name = <<>> \/ body.item_type = ""
                          THEN Answered(Idle, 400)
                     ELSE [Idle EXCEPT !.pc = "getSidebarItems", !.data = body]]
       /\ UNCHANGED <<build, resp, call>>

POST_sidebar_getSidebarItems ==
  \E c \in Connections :
    /\ proc[c].pc = "getSidebarItems"
    /\ proc' = [proc EXCEPT ![c] =
                  [@ EXCEPT !.pc = "INSERT",
                            !.sort_order = nextSortOrder(DB, parentIdOf(proc[c].data))]]
    /\ UNCHANGED <<build, sidebar_items, dynamic_tables, table_columns, table_data,
                   seq, work, resp, call>>

afterCreateSidebarItem(request, id) ==
  IF request.data.item_type = "table"
  THEN [request EXCEPT !.pc = "createDynamicTable", !.newItem = id]
  ELSE [Answered(request, 200) EXCEPT !.newItem = id]

POST_sidebar_INSERT ==
  \E c \in Connections, k \in Connections :
    LET body == proc[c].data
        ins == sqlInsertSidebarItem(DB, body.name, body.parent_id, body.item_type,
                                    proc[c].sort_order)
        request == [proc[c] EXCEPT !.inserted = ins.row.id]
    IN /\ proc[c].pc = "INSERT"
       /\ sidebar_items' = ins.db.si
       /\ seq' = ins.db.seq
       /\ work' = [work EXCEPT !.lastInsertId[k] =
                     IF ins.ok /\ Rev(build) # 1 THEN ins.row.id ELSE @]
       /\ proc' = [proc EXCEPT ![c] =
                     IF ~ins.ok THEN Answered(proc[c], 500)
                     ELSE IF Rev(build) = 1 THEN afterCreateSidebarItem(request, ins.row.id)
                     ELSE [request EXCEPT !.pc = "SELECT"]]
       /\ UNCHANGED <<build, dynamic_tables, table_columns, table_data, resp, call>>

POST_sidebar_SELECT ==
  \E c \in Connections, k \in Connections :
    LET createdItem == itemById(DB, work.lastInsertId[k])
    IN /\ proc[c].pc = "SELECT"
       /\ proc' = [proc EXCEPT ![c] =
                     IF createdItem = NoRow THEN Answered(proc[c], 500)
                     ELSE afterCreateSidebarItem(proc[c], createdItem.id)]
       /\ UNCHANGED <<build, sidebar_items, dynamic_tables, table_columns, table_data,
                      seq, work, resp, call>>

\* createDynamicTable is taken as one step here, its INSERT and its SELECT on the
\* same connection k
POST_sidebar_createDynamicTable ==
  \E c \in Connections, k \in Connections :
    LET table == createDynamicTable(build, DB,
                   [sidebar_item_id |-> proc[c].newItem,
                    table_name |-> normalize(proc[c].data.name),
                    display_name |-> proc[c].data.name])
    IN /\ proc[c].pc = "createDynamicTable"
       /\ dynamic_tables' = table.db.dt
       /\ seq' = table.db.seq
       /\ work' = [work EXCEPT !.lastInsertId[k] =
                     IF table.ok /\ Rev(build) # 1 THEN table.row.id ELSE @]
       /\ proc' = [proc EXCEPT ![c] =
                     IF table.ok THEN [Answered(proc[c], 200) EXCEPT !.table = table.row.id]
                     ELSE Answered(proc[c], 500)]
       /\ UNCHANGED <<build, sidebar_items, table_columns, table_data, resp, call>>

NextCreate ==
  \/ POST_sidebar_request({NameMyTable}, ItemTypes, {Null})
  \/ POST_sidebar_getSidebarItems
  \/ POST_sidebar_INSERT
  \/ POST_sidebar_SELECT
  \/ POST_sidebar_createDynamicTable
  \/ DELETE_sidebar

SpecCreate == Init /\ [][NextCreate]_vars

(***************************************************************************)
(* The string functions alone: an argument is chosen at the start and the  *)
(* function is applied to it, and again to its value.                      *)
(***************************************************************************)
Alphabet == {"A", "b", "7", "_", " ", "\t", "!"}

RECURSIVE StringsUpTo(_)
StringsUpTo(n) ==
  IF n = 0 THEN {<<>>}
  ELSE LET shorter == StringsUpTo(n - 1)
       IN shorter \cup {<<c>> \o t : c \in Alphabet, t \in {x \in shorter : Len(x) = n - 1}}

LongStrings == {NameLong, <<" ">> \o NameLong \o <<"!", " ", "A">>}

InitStrings ==
  /\ build \in {"rev1"}
  /\ sidebar_items = {}
  /\ dynamic_tables = {}
  /\ table_columns = {}
  /\ table_data = {}
  /\ seq = [item |-> 1, table |-> 1, column |-> 1, row |-> 1]
  /\ work = [seeds |-> 0, puts |-> 0, rowputs |-> 0, colputs |-> 0,
             lastInsertId |-> NoInsert]
  /\ resp = [op |-> "none", id |-> Null, status |-> 0, step |-> "none", made |-> Null]
  /\ proc = NoRequests
  /\ call \in {[fn |-> f, arg |-> a, val |-> a, applied |-> 0] :
                 f \in StringFunctions, a \in StringsUpTo(MaxLen) \cup LongStrings}

ApplyStringFunction ==
  /\ call.applied < MaxApplied
  /\ call' = [call EXCEPT !.val = applyStringFunction(call.fn, @), !.applied = @ + 1]
  /\ UNCHANGED <<build, sidebar_items, dynamic_tables, table_columns, table_data,
                 seq, work, resp, proc>>

NextStrings == ApplyStringFunction

SpecStrings == InitStrings /\ [][NextStrings]_vars

(***************************************************************************)
(* buildTree of the sidebar component alone: a flat list of items is       *)
(* chosen at the start and buildTree is applied to it.  The forest it      *)
(* returns is [roots, children]: the ids of rootItems in their order, and  *)
(* for each id of itemMap the ids of its children in their order.          *)
(***************************************************************************)
idsOf(items) == [i \in DOMAIN items |-> items[i].id]

buildTree(flatItems) ==
  LET itemMap == {flatItems[i].id : i \in DOMAIN flatItems}
      rootItems == SelectSeq(flatItems, LAMBDA item : item.parent_id = Null)
      pushed(id) == SelectSeq(flatItems, LAMBDA item : item.parent_id # Null
                                                       /\ item.parent_id = id)
  IN IF Len(flatItems) = 0 THEN [roots |-> <<>>, children |-> <<>>]
     ELSE [roots |-> idsOf(rootItems),
           children |-> [id \in itemMap |-> idsOf(pushed(id))]]

\* the nodes of a forest, each as often as the forest has it
RECURSIVE treeNodes(_, _)
treeNodes(children, ids) ==
  IF ids = <<>> THEN <<>>
  ELSE <<Head(ids)>> \o treeNodes(children, children[Head(ids)])
                    \o treeNodes(children, Tail(ids))

\* the lists of up to n items with different ids out of 1 .. MaxFlat, each with no
\* parent or with a parent_id out of 1 .. MaxFlat + 1
RECURSIVE FlatLists(_)
FlatLists(n) ==
  IF n = 0 THEN {<<>>}
  ELSE LET shorter == FlatLists(n - 1)
       IN shorter \cup
          {Append(l, [id |-> i, parent_id |-> p]) :
             l \in {x \in shorter : Len(x) = n - 1},
             i \in 1 .. MaxFlat, p \in {Null} \cup (1 .. MaxFlat + 1)}

InitBuildTree ==
  /\ build \in {"rev1"}
  /\ sidebar_items = {}
  /\ dynamic_tables = {}
  /\ table_columns = {}
  /\ table_data = {}
  /\ seq = [item |-> 1, table |-> 1, column |-> 1, row |-> 1]
  /\ work = [seeds |-> 0, puts |-> 0, rowputs |-> 0, colputs |-> 0,
             lastInsertId |-> NoInsert]
  /\ resp = [op |-> "none", id |-> Null, status |-> 0, step |-> "none", made |-> Null]
  /\ proc = NoRequests
  /\ call \in {[fn |-> "buildTree", arg |-> flat, val |-> <<>>, applied |-> 0] :
                 flat \in {l \in FlatLists(MaxFlat) :
                            \A i, j \in DOMAIN l : l[i].id = l[j].id => i = j}}

ApplyBuildTree ==
  /\ call.applied = 0
  /\ call' = [call EXCEPT !.val = buildTree(call.arg), !.applied = 1]
  /\ UNCHANGED <<build, sidebar_items, dynamic_tables, table_columns, table_data,
                 seq, work, resp, proc>>

NextBuildTree == ApplyBuildTree

SpecBuildTree == InitBuildTree /\ [][NextBuildTree]_vars

(***************************************************************************)
(* The table view alone.  A JavaScript value is [type, text]; the columns  *)
(* of the view are a list of [column_name, data_type, default_value]       *)
(* (table-view.tsx calls column_name "name"), and a row is [id, data] with *)
(* data a mapping from keys to values.  The columns and the row are chosen *)
(* at the start; initializeTabulator shows the row in the grid.            *)
(***************************************************************************)
Undefined == [type |-> "undefined", text |-> ""]
JsNull == [type |-> "null", text |-> ""]
Number(text) == [type |-> "number", text |-> text]
String(text) == [type |-> "string", text |-> text]
False == [type |-> "boolean", text |-> "false"]

\* a value that "||" and "if" take as false
falsy(value) == value \in {Undefined, JsNull, Number("0"), False, String("")}

\* new Date().toISOString().split("T")[0], the date when the row is read
CurrentDate == String("YYYY-MM-DD")

\* the type comes first, the column's default second
getDefaultValueByTypeFirst(dataType, defaultValue) ==
  CASE dataType \in {"number", "decimal", "double"} -> Number("0")
    [] dataType \in {"boolean", "checkbox"} -> False
    [] dataType = "date" -> CurrentDate
    [] OTHER -> IF ~falsy(defaultValue) THEN defaultValue ELSE String("")

getDefaultValueForType(dataType, defaultValue) ==
  IF ~falsy(defaultValue) THEN defaultValue
  ELSE CASE dataType \in {"number", "decimal", "double"} -> Number("0")
         [] dataType \in {"boolean", "checkbox"} -> False
         [] dataType = "date" -> CurrentDate
         [] OTHER -> String("")

\* name.toLowerCase().replace(/\s+/g, "_"): the field of the column in the grid
fieldName(name) == replaceWhiteSpaceRuns(toLowerCase(name))

\* the names of the columns, one that is its own field and one that is not, and a key
\* of the row that no column has
ColumnQ == <<"q">>
ColumnAB == <<"A", " ", "b">>
StrayKey == <<"z">>

\* the keys that an object of the view can have; an object is a mapping from all of
\* them, to undefined for a key that it does not have
Keys == {ColumnQ, ColumnAB, fieldName(ColumnAB), StrayKey}
NoData == [k \in Keys |-> Undefined]
keys(data) == {k \in Keys : data[k] # Undefined}

\* a || b
or(a, b) == IF falsy(a) THEN b ELSE a

\* the column that writes the field last: of two columns with one field the later one
lastColumnOf(columns, field) ==
  columns[CHOOSE i \in DOMAIN columns :
            /\ fieldName(columns[i].column_name) = field
            /\ \A j \in DOMAIN columns : fieldName(columns[j].column_name) = field => j <= i]

fieldsOf(columns) == {fieldName(columns[i].column_name) : i \in DOMAIN columns}
namesOf(columns) == {columns[i].column_name : i \in DOMAIN columns}

\* table-view.tsx: the row of mappedData, a value for the field of each column
mappedRow(columns, row) ==
  [f \in Keys |->
     IF f \notin fieldsOf(columns) THEN Undefined
     ELSE LET col == lastColumnOf(columns, f)
          IN or(row.data[col.column_name],
                getDefaultValueForType(col.data_type, col.default_value))]

\* the other revision of the view: the row goes to the grid with its data as it is
nestedRow(columns, row) == row.data

Views == {"table-view.tsx", "part_001"}

\* the row of the grid of a view, and for each column the value of the cell of its field
gridRow(view, columns, row) ==
  IF view = "table-view.tsx" THEN mappedRow(columns, row) ELSE nestedRow(columns, row)

shown(view, columns, row) ==
  [i \in DOMAIN columns |-> gridRow(view, columns, row)[fieldName(columns[i].column_name)]]

\* addNewRow: the data of the row that is sent to POST /tables/{id}/data, the default
\* of each column under the column's name
addNewRow_tableView(columns) ==
  LET defaultData == [f \in Keys |->
                        IF f \notin fieldsOf(columns) THEN Undefined
                        ELSE LET col == lastColumnOf(columns, f)
                             IN getDefaultValueForType(col.data_type, col.default_value)]
  IN [k \in Keys |-> IF k \in namesOf(columns) THEN defaultData[fieldName(k)] ELSE Undefined]

addNewRow_part001(columns) ==
  [k \in Keys |->
     IF k \notin namesOf(columns) THEN Undefined
     ELSE LET col == columns[CHOOSE i \in DOMAIN columns : columns[i].column_name = k]
          IN getDefaultValueForType(col.data_type, col.default_value)]

addNewRowData(view, columns) ==
  IF view = "table-view.tsx" THEN addNewRow_tableView(columns)
  ELSE addNewRow_part001(columns)

\* data with data[key] = value
set(data, key, value) == [data EXCEPT ![key] = value]

\* updateRowData: the data of the body of PUT /tables/{id}/data/{rowId}, for each
\* column the value that data has under the column's field, unless it is undefined
updateRowData(columns, data) ==
  [k \in Keys |-> IF k \in namesOf(columns) THEN data[fieldName(k)] ELSE Undefined]

\* cellEdited of the column at position i, with the value that the editor left in the
\* cell: the data that updateRowData sends
cellEdited_tableView(columns, grid, i, value) ==
  updateRowData(columns, set(grid, fieldName(columns[i].column_name), value))

cellEdited_part001(columns, grid, i, value) ==
  LET currentData == set(grid, fieldName(columns[i].column_name), value)
      updateData == set(currentData, columns[i].column_name, value)
  IN updateRowData(columns, updateData)

cellEditedData(view, columns, grid, i, value) ==
  IF view = "table-view.tsx" THEN cellEdited_tableView(columns, grid, i, value)
  ELSE cellEdited_part001(columns, grid, i, value)

\* the inputs: columns of two names, four types, with and without a default, and rows
\* that have each key or not
ViewColumns ==
  {[column_name |-> n, data_type |-> t, default_value |-> d] :
     n \in {ColumnQ, ColumnAB}, t \in {"number", "boolean", "date", "text"},
     d \in {JsNull, String("5")}}

RECURSIVE ViewColumnLists(_)
ViewColumnLists(n) ==
  IF n = 0 THEN {<<>>}
  ELSE LET shorter == ViewColumnLists(n - 1)
       IN shorter \cup
          {Append(l, c) : l \in {x \in shorter : Len(x) = n - 1}, c \in ViewColumns}

StoredValues == {Number("0"), False, String(""), Number("7")}

ViewRows ==
  {[id |-> 1, data |-> d] :
     d \in {x \in [Keys -> StoredValues \cup {Undefined}] :
              /\ x[fieldName(ColumnAB)] = Undefined
              /\ x[StrayKey] \in {Undefined, Number("7")}}}

\* val is the state of the view: the last step, the row of the grid and what its cells
\* show, the data of the row that addNewRow sent, the name of the column that was
\* edited and the row_data that the resulting PUT stored
NoGrid == [last |-> "none", row |-> NoData, shown |-> <<>>, added |-> NoData,
           edited |-> <<>>, stored |-> NoData]

InitView ==
  /\ build \in {"rev1"}
  /\ sidebar_items = {}
  /\ dynamic_tables = {}
  /\ table_columns = {}
  /\ table_data = {}
  /\ seq = [item |-> 1, table |-> 1, column |-> 1, row |-> 1]
  /\ work = [seeds |-> 0, puts |-> 0, rowputs |-> 0, colputs |-> 0,
             lastInsertId |-> NoInsert]
  /\ resp = [op |-> "none", id |-> Null, status |-> 0, step |-> "none", made |-> Null]
  /\ proc = NoRequests
  /\ call \in {[fn |-> view, arg |-> [columns |-> columns, row |-> row],
                 val |-> NoGrid, applied |-> 0] :
                 view \in Views, row \in ViewRows,
                 columns \in {l \in ViewColumnLists(MaxViewColumns) :
                                /\ Len(l) > 0
                                /\ \A i, j \in DOMAIN l :
                                     l[i].column_name = l[j].column_name => i = j}}

initializeTabulator ==
  /\ call.applied = 0
  /\ call' = [call EXCEPT
                !.val = [NoGrid EXCEPT
                           !.last = "initializeTabulator",
                           !.row = gridRow(call.fn, call.arg.columns, call.arg.row),
                           !.shown = shown(call.fn, call.arg.columns, call.arg.row)],
                !.applied = 1]
  /\ UNCHANGED <<build, sidebar_items, dynamic_tables, table_columns, table_data,
                 seq, work, resp, proc>>

addNewRow ==
  /\ call.applied = 1
  /\ call' = [call EXCEPT !.val.last = "addNewRow",
                          !.val.added = addNewRowData(call.fn, call.arg.columns),
                          !.applied = 2]
  /\ UNCHANGED <<build, sidebar_items, dynamic_tables, table_columns, table_data,
                 seq, work, resp, proc>>

\* the PUT that updateRowData sends replaces the row_data of the row
cellEdited ==
  \E i \in DOMAIN call.arg.columns, value \in {Number("9"), String("")} :
    /\ call.applied = 1
    /\ call' = [call EXCEPT
                  !.val.last = "cellEdited",
                  !.val.edited = call.arg.columns[i].column_name,
                  !.val.stored = cellEditedData(call.fn, call.arg.columns, call.val.row,
                                                i, value),
                  !.applied = 2]
    /\ UNCHANGED <<build, sidebar_items, dynamic_tables, table_columns, table_data,
                   seq, work, resp, proc>>

NextView == initializeTabulator \/ addNewRow \/ cellEdited

SpecView == InitView /\ [][NextView]_vars

(***************************************************************************)
(* Properties.                                                             *)
(***************************************************************************)
SidebarPostOps == {"POST /sidebar", "POST /sidebar (compensating)"}

\* the last request was a POST /sidebar for a table whose createDynamicTable threw
TableCreationFailed ==
  resp.op \in SidebarPostOps /\ resp.step = "createDynamicTable" /\ resp.status = 500

\* the last request was a POST /sidebar that made a table item and answered 200
TableItemCreated ==
  /\ resp.op \in SidebarPostOps
  /\ resp.status = 200
  /\ itemById(DB, resp.made) # NoRow
  /\ itemById(DB, resp.made).item_type = "table"

\* C1: when createDynamicTable fails in POST /sidebar after the item was created, no
\* SidebarItem with the new id exists once the request has finished
C1_NoOrphanAfterFailedTable == TableCreationFailed => resp.made \notin Ids(sidebar_items)

\* the first n characters of s, or all of s when it has fewer
firstChars(s, n) == [i \in 1..(IF Len(s) < n THEN Len(s) ELSE n) |-> s[i]]

\* C2 as the specification states it: a successful POST /sidebar of a table named n
\* leaves exactly one DynamicTable for the new item, and its table_name is normalize(n)
C2_TableNameIsNormalized ==
  TableItemCreated =>
    LET tables == getDynamicTableBySidebarId(DB, resp.made)
    IN /\ Cardinality(tables) = 1
       /\ \A t \in tables : t.table_name = normalize(itemById(DB, resp.made).name)

\* C2 as the code has it: a successful POST /sidebar of a table named n leaves exactly
\* one DynamicTable for the new item; its table_name is normalize(n), and in the
\* compensating revision of the route the first 64 characters of normalize(n)
C2_TableNameIsNormalizedAndCut ==
  TableItemCreated =>
    LET tables == getDynamicTableBySidebarId(DB, resp.made)
        n == itemById(DB, resp.made).name
    IN /\ Cardinality(tables) = 1
       /\ \A t \in tables :
            t.table_name = IF resp.op = "POST /sidebar" THEN normalize(n)
                           ELSE firstChars(normalize(n), TableNameLimit)

\* a table item named with 65 letters was created and its table_name has 64 of them
C2_CutNameStored ==
  /\ TableItemCreated
  /\ itemById(DB, resp.made).name = NameLong
  /\ \E t \in getDynamicTableBySidebarId(DB, resp.made) :
       Len(t.table_name) = TableNameLimit /\ Len(normalize(NameLong)) > TableNameLimit

\* C3: each SidebarItem of type 'table' has exactly one DynamicTable bound to it
C3_OneTablePerTableItem ==
  \A i \in sidebar_items :
    i.item_type = "table" => Cardinality(getDynamicTableBySidebarId(DB, i.id)) = 1

\* the mappings update is tried with: every mapping of some of the keys a, b
RowMappings == UNION {[D -> {1, 2, 9}] : D \in (SUBSET {"a", "b"}) \ {{}}}

\* C4: PUT /tables/{id}/data/{rowId} on an existing row answers 200 and leaves the
\* supplied mapping, with no key of the previous mapping besides, as the row's
\* row_data; the other rows stay as they were
C4_UpdateReplacesRowData ==
  \A id \in Ids(table_data), m \in RowMappings :
    LET r == dataPUT(build, DB, id, [data |-> m])
        stored == rowById(r.db, id).row_data
    IN /\ r.resp.status = 200
       /\ stored = m
       /\ DOMAIN stored = DOMAIN m
       /\ \A d \in table_data : d.id # id => d \in r.db.td

\* a row created as {a: 1, b: 2} holds {a: 9} after a PUT
C4_RowReplaced ==
  /\ resp.op = "PUT /tables/{id}/data/{rowId}"
  /\ resp.status = 200
  /\ rowById(DB, resp.id) # NoRow
  /\ rowById(DB, resp.id).row_data = [a |-> 9]

\* does following parent_id from x reach a within n steps
RECURSIVE hasAncestor(_, _, _, _)
hasAncestor(si, x, a, n) ==
  /\ n > 0
  /\ x.parent_id # Null
  /\ \/ x.parent_id = a
     \/ \E p \in si : p.id = x.parent_id /\ hasAncestor(si, p, a, n - 1)

ItemsUnder(si, a) == {x \in si : hasAncestor(si, x, a, Cardinality(si))}

FolderDeleted ==
  /\ resp'.op = "DELETE /sidebar/{id}"
  /\ resp'.status = 200
  /\ itemById(DB, resp'.id) # NoRow
  /\ itemById(DB, resp'.id).item_type = "folder"

\* C5: after a successful DELETE /sidebar/{id} of a folder, no item that had the
\* folder as an ancestor exists, no DynamicTable, column or row of a table item
\* under it exists, and GET /tables/{id} of such a table item answers 404
C5_DeleteFolderRemovesSubtree ==
  [][FolderDeleted =>
       LET gone == ItemsUnder(sidebar_items, resp'.id)
           tables == {t \in dynamic_tables : t.sidebar_item_id \in Ids(gone)}
       IN /\ resp'.id \notin Ids(sidebar_items')
          /\ Ids(gone) \cap Ids(sidebar_items') = {}
          /\ Ids(tables) \cap Ids(dynamic_tables') = {}
          /\ \A c \in table_columns' : c.table_id \notin Ids(tables)
          /\ \A d \in table_data' : d.table_id \notin Ids(tables)
          /\ \A x \in gone :
               x.item_type = "table" =>
                 \A t \in First(getDynamicTableBySidebarId(DB', x.id)) : tablesGET(t) = 404
    ]_vars

\* the store is empty after the DELETE of item 1, three items, a column and a row
\* having been created under the first revision
C5_SubtreeDeleted ==
  /\ build = "rev1"
  /\ resp.op = "DELETE /sidebar/{id}" /\ resp.status = 200 /\ resp.id = 1
  /\ seq.item > MaxTreeItems /\ seq.table > 1 /\ seq.column > 1 /\ seq.row > 1
  /\ sidebar_items = {} /\ dynamic_tables = {} /\ table_columns = {} /\ table_data = {}

\* C6: every column and every row belongs to an existing DynamicTable, and every
\* DynamicTable belongs to an existing SidebarItem of type 'table'
C6_ReferencesResolve ==
  /\ \A c \in table_columns : c.table_id \in Ids(dynamic_tables)
  /\ \A d \in table_data : d.table_id \in Ids(dynamic_tables)
  /\ \A t \in dynamic_tables :
       \E i \in sidebar_items : i.id = t.sidebar_item_id /\ i.item_type = "table"

\* does following parent_id from x reach null within n steps
RECURSIVE reachesRoot(_, _, _)
reachesRoot(si, x, n) ==
  \/ x.parent_id = Null
  \/ n > 0 /\ \E p \in si : p.id = x.parent_id /\ reachesRoot(si, p, n - 1)

\* C7: the SidebarItems form a forest, and every parent is an existing folder
C7_Forest ==
  \A i \in sidebar_items :
    /\ reachesRoot(sidebar_items, i, Cardinality(sidebar_items))
    /\ i.parent_id # Null =>
         \E p \in sidebar_items : p.id = i.parent_id /\ p.item_type = "folder"

\* C8: no two DynamicTables have the same table_name
C8_TableNamesUnique ==
  \A t1, t2 \in dynamic_tables : t1.table_name = t2.table_name => t1.id = t2.id

\* C9: within one DynamicTable no two columns have the same column_name
C9_ColumnNamesUnique ==
  \A c1, c2 \in table_columns :
    c1.table_id = c2.table_id /\ c1.column_name = c2.column_name => c1.id = c2.id

\* C10: a table whose name normalizes to the empty string is not created: no
\* DynamicTable has an empty table_name and no table item has such a name
C10_NoEmptyTableName ==
  /\ \A t \in dynamic_tables : t.table_name # <<>>
  /\ \A i \in sidebar_items :
       i.item_type = "table" /\ i.name # <<>> => normalize(i.name) # <<>>

\* C11: each of the normalizations is idempotent: applied to its own value it
\* returns that value
C11_NormalizeIdempotent ==
  call.applied >= 2 => call.val = applyStringFunction(call.fn, call.arg)

\* normalize was applied twice to "A !" and the value is "a_"
C11_NormalizedTwice ==
  /\ call.fn = "normalize"
  /\ call.applied = 2
  /\ call.arg = <<"A", " ", "!">>
  /\ call.val = <<"a", "_">>

\* the characters of [a-z0-9_]
AllowedChars ==
  {"a","b","c","d","e","f","g","h","i","j","k","l","m","n","o","p","q","r","s","t",
   "u","v","w","x","y","z","0","1","2","3","4","5","6","7","8","9","_"}

\* C12: each of the normalizations returns, for every string, a string of
\* characters of [a-z0-9_]
C12_NormalizeTotal == call.applied >= 1 => call.val \in Seq(AllowedChars)

\* normalize was applied to "!!!" and returned the empty string
C12_AllStripped ==
  /\ call.fn = "normalize"
  /\ call.applied = 1
  /\ call.arg = NameBangs
  /\ call.val = <<>>

\* the columns that POST /tables/{id}/columns created; the route stores the name of
\* the request as their display_name
RequestMadeColumns == {c \in table_columns : c.id > seq.column - 1 - UserColumns}

\* C13: the column_name of every column created through POST /tables/{id}/columns is
\* the normalized form of the name in the request
C13_ColumnNameIsNormalized ==
  \A c \in RequestMadeColumns : c.column_name = normalize(c.display_name)

\* C14: updateColumn(id, updates) changes only the fields present in updates: every
\* other field of the column, every other column and every other table of the store
\* is after the request what it was before
C14_UpdateColumnKeepsAbsentFields ==
  \A id \in Ids(table_columns) \cup {seq.column + 1}, updates \in ColumnUpdates :
    LET r == columnPUT(build, DB, id, updates)
    IN /\ Ids(r.db.tc) = Ids(table_columns)
       /\ \A c \in table_columns, c2 \in r.db.tc :
            c2.id = c.id =>
              \A f \in DOMAIN c : (c.id # id \/ f \notin DOMAIN updates) => c2[f] = c[f]
       /\ [r.db EXCEPT !.tc = table_columns] = DB

C14_WidthUpdated ==
  /\ resp.op = "PUT /tables/{id}/columns/{columnId}"
  /\ resp.status = 200
  /\ \E c \in table_columns :
       /\ c.id = resp.id
       /\ c.width = 200
       /\ c.column_name = NameFullName
       /\ c.data_type = "number"

\* C15: deleteColumn removes only the column: the rows of the store and the row_data
\* of each are after the request what they were before, no other column and nothing
\* else of the store changes, and a request that succeeds leaves no column of that id
C15_DeleteColumnKeepsRows ==
  \A id \in Ids(table_columns) \cup {seq.column + 1} :
    LET r == columnDELETE(build, DB, id)
    IN /\ r.db.td = table_data
       /\ {c \in table_columns : c.id # id} \subseteq r.db.tc
       /\ r.db.tc \subseteq table_columns
       /\ r.resp.status = 200 => id \notin Ids(r.db.tc)
       /\ [r.db EXCEPT !.tc = table_columns] = DB

C15_ColumnDeletedRowKept ==
  /\ resp.op = "DELETE /tables/{id}/columns/{columnId}"
  /\ resp.status = 200
  /\ resp.id \in (seq.column - 1 - UserColumns + 1) .. (seq.column - 1)
  /\ resp.id \notin Ids(table_columns)
  /\ \E d \in table_data : d.row_data = [a |-> 1, b |-> 2]

\* C16: after a successful POST /tables/{id}/data with data d, GET /tables/{id}/data
\* with the same {id} returns a list that contains the created row with data d
C16_CreatedRowIsListed ==
  \A id \in ItemIdInputs, d \in RowMappings :
    \A dynamicTable \in First(getDynamicTableBySidebarId(DB, id)) :
      LET r == dataPOST(build, DB, id, dynamicTable, [data |-> d])
          list == dataGET(build, r.db, id)
      IN r.resp.status = 200 =>
           \E i \in DOMAIN list : list[i].id = r.resp.made /\ list[i].row_data = d

\* C17: a row create whose table_id is not the id of an existing dynamic table fails
\* with a not-found error, status 404, and stores no row
C17_MissingTableIsNotFound ==
  \A tableId \in TableIdInputs, d \in RowMappings :
    LET r == dataPOST_byTableId(build, DB, tableId, [data |-> d])
    IN tableId \notin Ids(dynamic_tables) =>
         r.resp.status = 404 /\ r.db.td = table_data

\* C18: when two requests update the same row at the same time, both succeed, and
\* the row_data of the row is the mapping of the request whose UPDATE was executed
\* last; at no time is it a mixture of the mappings
C18_LastWriteWins ==
  /\ \A c, o \in Connections :
       /\ proc[c].pc = "done" /\ proc[o].pc = "done"
       /\ proc[c].id = proc[o].id /\ proc[c].id \in Ids(table_data)
       /\ proc[c].written > proc[o].written
       => /\ proc[c].status = 200 /\ proc[o].status = 200
          /\ rowById(DB, proc[c].id).row_data = proc[c].data
  /\ \A d \in table_data :
       \/ d.row_data \in Range(SeedRows)
       \/ d.row_data = [a |-> 1, b |-> 2]
       \/ \E c \in Connections : proc[c].written > 0 /\ d.row_data = proc[c].data

C18_BothWritten ==
  /\ proc["c1"].pc = "done" /\ proc["c2"].pc = "done"
  /\ proc["c1"].id = proc["c2"].id /\ proc["c1"].id \in Ids(table_data)
  /\ proc["c1"].data = [a |-> 9] /\ proc["c2"].data = [b |-> 2]
  /\ proc["c1"].written = 2 /\ proc["c2"].written = 1
  /\ rowById(DB, proc["c1"].id).row_data = [a |-> 9]

\* C19: POST /sidebar with an empty name, or with an item_type that is neither
\* 'folder' nor 'table', fails with status 400 and creates no sidebar item
C19_InvalidItemIsRejected ==
  \A body \in SidebarBodies({<<>>, NameMyTable}, ItemTypes \cup {"view", ""},
                            Ids(sidebar_items) \cup {Null}) :
    LET r == sidebarPOST(build, DB, body)
    IN body.name = <<>> \/ body.item_type \notin ItemTypes =>
         r.resp.status = 400 /\ r.db.si = sidebar_items

\* C20: a rename of an id that no item has fails and changes nothing; a rename of an
\* item to the name it has succeeds and leaves the item and the store as they were
C20_RenameMissingFailsSameNameKeeps ==
  /\ \A name \in {NameMyTable, NameBangs} :
       LET r == updateSidebarItem(build, DB, MissingItem, [name |-> name])
       IN ~r.ok /\ r.db = DB
  /\ \A item \in sidebar_items :
       LET r == updateSidebarItem(build, DB, item.id, [name |-> item.name])
       IN r.ok /\ r.row = item /\ r.db = DB

\* C21: the body of the response to a request that fails is an error envelope, and
\* none of its fields is the stack trace of the error
C21_NoStackTraceInEnvelope ==
  LET failed(r) == r.status >= 400
      clean(r) == "error" \in DOMAIN r.body /\ \A f \in DOMAIN r.body : r.body[f] # ErrorStack
  IN /\ \A id \in ItemIdInputs :
          LET r == sidebarDELETE_detailed(build, DB, id) IN failed(r) => clean(r)
     /\ \A id \in ItemIdInputs, body \in {NotJson, [name |-> NameMyTable], [name |-> <<" ">>]} :
          LET r == sidebarPUT_detailed(build, DB, id, body) IN failed(r) => clean(r)
     /\ LET r == testGET(build, DB) IN failed(r) => clean(r)

\* C22: the forest that buildTree returns has every item of the flat list exactly
\* once, and an item whose parent_id is the id of no item of the list is a root
C22_BuildTreeKeepsEveryItem ==
  call.fn = "buildTree" /\ call.applied = 1 =>
    LET nodes == treeNodes(call.val.children, call.val.roots)
    IN \A i \in DOMAIN call.arg :
         /\ Cardinality({n \in DOMAIN nodes : nodes[n] = call.arg[i].id}) = 1
         /\ call.arg[i].parent_id \notin Range(idsOf(call.arg)) =>
              call.arg[i].id \in Range(call.val.roots)

\* C23: when a row is shown, the cell of a column that has no default_value and whose
\* key the row_data does not have shows 0 for a number, false for a boolean, the
\* current date for a date and the empty string for every other type
C23_AbsentKeyShowsTypeDefault ==
  call.fn \in Views /\ call.applied >= 1 =>
    \A i \in DOMAIN call.arg.columns :
      LET col == call.arg.columns[i]
      IN falsy(col.default_value) /\ col.column_name \notin keys(call.arg.row.data) =>
           call.val.shown[i] =
             CASE col.data_type \in {"number", "decimal", "double"} -> Number("0")
               [] col.data_type \in {"boolean", "checkbox"} -> False
               [] col.data_type = "date" -> CurrentDate
               [] OTHER -> String("")

\* C24: the default of a column that has a default_value is that default_value,
\* whatever the data_type of the column is
C24_DefaultValueWins ==
  call.fn \in Views /\ call.val.last = "addNewRow" =>
    \A i \in DOMAIN call.arg.columns :
      LET col == call.arg.columns[i]
      IN col.default_value \notin {Undefined, JsNull, String("")} =>
           call.val.added[col.column_name] = col.default_value

C24_NumberColumnDefaultFive ==
  /\ call.fn \in Views /\ call.val.last = "addNewRow"
  /\ \E i \in DOMAIN call.arg.columns :
       /\ call.arg.columns[i].data_type = "number"
       /\ call.arg.columns[i].default_value = String("5")
       /\ call.val.added[call.arg.columns[i].column_name] = String("5")

\* C26: editing one cell changes only the key of that column in the stored row_data;
\* every other key of the row, also one that no column has, keeps its value
C26_EditKeepsOtherKeys ==
  call.fn \in Views /\ call.val.last = "cellEdited" =>
    \A key \in Keys \ {call.val.edited} : call.val.stored[key] = call.arg.row.data[key]

\* C30: when a row is shown, the cell of a column whose key the row_data has shows
\* the stored value, also when that is false, 0 or the empty string
C30_PresentKeyShowsStoredValue ==
  call.fn \in Views /\ call.applied >= 1 =>
    \A i \in DOMAIN call.arg.columns :
      LET col == call.arg.columns[i]
      IN col.column_name \in keys(call.arg.row.data) =>
           call.val.shown[i] = call.arg.row.data[col.column_name]

\* C25: the sort_order of the item that a POST /sidebar created is 1 plus the largest
\* sort_order of the other items with its parent_id, or 1 when there is none; the
\* items without a parent are one such group
C25_SortOrderIsNextAmongSiblings ==
  \A body \in SidebarBodies({NameMyTable}, {"folder"}, Ids(sidebar_items) \cup {Null})
              \cup {[name |-> NameMyTable, item_type |-> "folder"]} :
    LET r == sidebarPOST(build, DB, body)
    IN r.resp.status = 200 =>
         \A newItem \in {i \in r.db.si : i.id = r.resp.made} :
           newItem.sort_order =
             1 + SetMax({i.sort_order : i \in {x \in r.db.si \ {newItem} :
                                                x.parent_id = newItem.parent_id}} \cup {0})


\* C28: a successful POST /sidebar adds exactly one SidebarItem and, for item_type
\* 'table', exactly one DynamicTable, and leaves every other SidebarItem, DynamicTable,
\* ColumnDefinition and RowRecord as it was, also when the store holds no SidebarItem
C28_PostAddsExactlyOneItem ==
  \A body \in SidebarBodies({NameMyTable}, ItemTypes, Ids(sidebar_items) \cup {Null}) :
    LET r == sidebarPOST(build, DB, body)
    IN r.resp.status = 200 =>
         /\ sidebar_items \subseteq r.db.si
         /\ Cardinality(r.db.si \ sidebar_items) = 1
         /\ dynamic_tables \subseteq r.db.dt
         /\ Cardinality(r.db.dt \ dynamic_tables) = IF body.item_type = "table" THEN 1 ELSE 0
         /\ r.db.tc = table_columns
         /\ r.db.td = table_data


\* C27: createSidebarItem returns the row inserted by that same call, also when other
\* create requests interleave with it on the connection pool, so the DynamicTable that
\* POST /sidebar provisions is bound to the SidebarItem that this request created
C27_CreateReturnsOwnRow ==
  \A c \in Connections :
    /\ proc[c].newItem # Null => proc[c].newItem = proc[c].inserted
    /\ \A t \in dynamic_tables :
         t.id = proc[c].table => t.sidebar_item_id = proc[c].inserted

\* C29: after any sequence of POST /sidebar and DELETE /sidebar requests, including
\* POST requests whose read-siblings step and insert step interleave, no two
\* SidebarItems with the same parent_id have the same sort_order
C29_SiblingSortOrdersDiffer ==
  \A i \in sidebar_items, j \in sidebar_items :
    (i.id # j.id /\ i.parent_id = j.parent_id) => i.sort_order # j.sort_order

====
